---- MODULE Spec2Model ----
(***************************************************************************)
(* Model of assets/js/research-filter.js: the type/tag filter of the       *)
(* research page and the abstract toggle.                                  *)
(*                                                                         *)
(* data-tag / data-tags values are strings that the script searches with   *)
(* String.indexOf, so they are modelled as sequences of characters.        *)
(* data-type values are only ever compared with ===, so they are modelled  *)
(* as TLA+ strings.                                                        *)
(***************************************************************************)
EXTENDS Integers, Sequences, FiniteSets, TLC

\* ------------------------------------------------------------------ markup

\* Number of .pub-entry elements of the page (a prefix of Catalogue).
NumPubs == 4

\* The tag sentinel "all" and the tag tokens used by the page.
ALL == <<"a", "l", "l">>
AI  == <<"a", "i">>
EU  == <<"e", "u">>
AIR == <<"a", "i", "r">>

\* .pub-entry elements: data-type, and data-tags (hasTags = FALSE: the
\* element carries no data-tags attribute, getAttribute returns null).
Catalogue ==
  << [type |-> "paper",   hasTags |-> TRUE,  tags |-> AI \o <<",">> \o EU],
     [type |-> "article", hasTags |-> TRUE,  tags |-> EU],
     [type |-> "paper",   hasTags |-> TRUE,  tags |-> AIR],
     [type |-> "article", hasTags |-> FALSE, tags |-> <<>>],
     [type |-> "paper",   hasTags |-> TRUE,  tags |-> <<>>],
     [type |-> "article", hasTags |-> TRUE,  tags |-> AIR \o <<",">> \o EU] >>

\* var allPubs = Array.from(document.querySelectorAll(".pub-entry"))
allPubs ==
  SubSeq(Catalogue, 1, IF NumPubs < Len(Catalogue) THEN NumPubs ELSE Len(Catalogue))

\* data-type of each .type-btn, in document order.
typeBtns == << "all", "paper", "article" >>

\* data-tag of each .pub-tag pill, in document order.
pills == << AI, EU, AIR >>

\* The .tag-btn groups a page may carry, by data-tag in document order: one
\* button per tag; buttons for only some of the pills' tags; two buttons
\* with the same data-tag.
TagBtnLayouts ==
  { << ALL, AI, EU, AIR >>,
    << ALL, AI >>,
    << ALL, AI, AI >> }

\* The abstract toggle button of an entry and the element after it:
\* hasSibling = FALSE when the button is the last child of its parent.
AbstractLayouts ==
  { [hasSibling |-> FALSE, display |-> "",      label |-> "Abstract ▼"],
    [hasSibling |-> TRUE,  display |-> "",      label |-> "Abstract ▼"],
    [hasSibling |-> TRUE,  display |-> "none",  label |-> "Abstract ▼"],
    [hasSibling |-> TRUE,  display |-> "block", label |-> "Abstract ▲"] }

\* document.querySelector(".filter-section") finds an element.
filterSection == TRUE

VARIABLES
  tagBtns,          \* data-tag of each .tag-btn (fixed by the markup)
  countEl,          \* document.getElementById("pub-count") is an element
  clearBtn,         \* document.getElementById("clear-filters") is an element
  hasSibling,       \* the abstract button has a nextElementSibling
  activeType,       \* var activeType
  activeTag,        \* var activeTag
  display,          \* style.display of each .pub-entry
  countText,        \* countEl.textContent
  clearDisplay,     \* clearBtn.style.display
  typeActive,       \* the .type-btn elements whose classList holds "active"
  tagActive,        \* the .tag-btn elements whose classList holds "active"
  abstractDisplay,  \* style.display of the abstract block
  abstractLabel,    \* textContent of the abstract button
  scrolled,         \* the filter section was scrolled into view
  err,              \* the exception the last handler threw, "" if none
  prev,             \* the script state before the last event
  lastOp            \* the last event handled

dom == << tagBtns, countEl, clearBtn, hasSibling >>

vars == << tagBtns, countEl, clearBtn, hasSibling, activeType, activeTag,
           display, countText, clearDisplay, typeActive, tagActive,
           abstractDisplay, abstractLabel, scrolled, err, prev, lastOp >>

\* The script's state as one record.
St ==
  [ activeType |-> activeType, activeTag |-> activeTag, display |-> display,
    countText |-> countText, clearDisplay |-> clearDisplay,
    typeActive |-> typeActive, tagActive |-> tagActive,
    abstractDisplay |-> abstractDisplay, abstractLabel |-> abstractLabel,
    scrolled |-> scrolled, err |-> err ]

SetSt(s) ==
  /\ activeType' = s.activeType
  /\ activeTag' = s.activeTag
  /\ display' = s.display
  /\ countText' = s.countText
  /\ clearDisplay' = s.clearDisplay
  /\ typeActive' = s.typeActive
  /\ tagActive' = s.tagActive
  /\ abstractDisplay' = s.abstractDisplay
  /\ abstractLabel' = s.abstractLabel
  /\ scrolled' = s.scrolled
  /\ err' = s.err

\* ---------------------------------------------------------------- helpers

\* t occurs in s at 0-based offset i.
MatchAt(s, t, i) == \A k \in 1..Len(t) : s[i + k] = t[k]

\* String.prototype.indexOf: the least offset at which t occurs in s, or -1.
IndexOf(s, t) ==
  LET hits == { i \in 0..(Len(s) - Len(t)) : MatchAt(s, t, i) }
  IN  IF hits = {} THEN -1 ELSE CHOOSE i \in hits : \A j \in hits : i <= j

\* pub.getAttribute("data-tags") || ""
PubTags(pub) == IF pub.hasTags THEN pub.tags ELSE <<>>

TypeMatch(pub, type) == type = "all" \/ pub.type = type

\* the tag test without the "all" sentinel
TagMatch_NoSentinel(pub, tag) == IndexOf(PubTags(pub), tag) # -1

TagMatch(pub, tag) == tag = ALL \/ IndexOf(PubTags(pub), tag) # -1

\* the label with the plural taken for visible > 1 only
CountLabel_PluralAboveOne(visible) ==
  ToString(visible) \o " publication" \o (IF visible > 1 THEN "s" ELSE "")

\* visible + " publication" + (visible !== 1 ? "s" : "")
CountLabel(visible) ==
  ToString(visible) \o " publication" \o (IF visible # 1 THEN "s" ELSE "")

\* ------------------------------------------------------------- operations

\* the clear control shown only when both selections are set
ClearShown_Both(type, tag) == type # "all" /\ tag # ALL

\* activeType !== "all" || activeTag !== "all"
ClearShown(type, tag) == type # "all" \/ tag # ALL

\* updateDisplay without the if (countEl) / if (clearBtn) guards: writing to
\* a property of null throws a TypeError and ends the function.
updateDisplay_Unguarded(s) ==
  LET shown(i) == TypeMatch(allPubs[i], s.activeType) /\ TagMatch(allPubs[i], s.activeTag)
      visible  == Cardinality({ i \in DOMAIN allPubs : shown(i) })
      d        == [ i \in DOMAIN allPubs |-> IF shown(i) THEN "" ELSE "none" ]
  IN  IF ~countEl \/ ~clearBtn
      THEN [ s EXCEPT !.display = d,
                      !.countText = IF countEl THEN CountLabel(visible) ELSE @,
                      !.err = "TypeError" ]
      ELSE [ s EXCEPT !.display = d,
                      !.countText = CountLabel(visible),
                      !.clearDisplay =
                         IF ClearShown(s.activeType, s.activeTag)
                         THEN "inline-block" ELSE "none" ]

updateDisplay(s) ==
  LET shown(i) == TypeMatch(allPubs[i], s.activeType) /\ TagMatch(allPubs[i], s.activeTag)
      visible  == Cardinality({ i \in DOMAIN allPubs : shown(i) })
  IN  [ s EXCEPT
          !.display = [ i \in DOMAIN allPubs |-> IF shown(i) THEN "" ELSE "none" ],
          !.countText = IF countEl THEN CountLabel(visible) ELSE @,
          !.clearDisplay =
             IF clearBtn
             THEN IF ClearShown(s.activeType, s.activeTag)
                  THEN "inline-block" ELSE "none"
             ELSE @ ]

\* the type handler also resetting the tag selection
TypeBtnClick_ResetsTag(s, b) ==
  updateDisplay([ s EXCEPT !.typeActive = (@ \ DOMAIN typeBtns) \cup {b},
                           !.activeType = typeBtns[b],
                           !.activeTag = ALL,
                           !.err = "" ])

\* click on the .type-btn with index b
TypeBtnClick(s, b) ==
  updateDisplay([ s EXCEPT !.typeActive = (@ \ DOMAIN typeBtns) \cup {b},
                           !.activeType = typeBtns[b],
                           !.err = "" ])

\* click on the .tag-btn with index b
TagBtnClick(s, b) ==
  updateDisplay([ s EXCEPT !.tagActive = (@ \ DOMAIN tagBtns) \cup {b},
                           !.activeTag = tagBtns[b],
                           !.err = "" ])

\* the pill handler without classList.remove("active")
PubTagClick_KeepsMarks(s, p) ==
  LET tag == pills[p]
      u == updateDisplay(
             [ s EXCEPT !.tagActive = @ \cup { b \in DOMAIN tagBtns : tagBtns[b] = tag },
                        !.activeTag = tag,
                        !.err = "" ])
  IN  [ u EXCEPT !.scrolled = IF filterSection THEN TRUE ELSE @ ]

\* the pill handler also resetting the type selection
PubTagClick_ResetsType(s, p) ==
  LET tag == pills[p]
      u == updateDisplay(
             [ s EXCEPT !.tagActive = { b \in DOMAIN tagBtns : tagBtns[b] = tag },
                        !.activeTag = tag,
                        !.activeType = "all",
                        !.err = "" ])
  IN  [ u EXCEPT !.scrolled = IF filterSection THEN TRUE ELSE @ ]

\* the pill handler without its updateDisplay() call
PubTagClick_NoUpdate(s, p) ==
  LET tag == pills[p]
  IN  [ s EXCEPT !.tagActive = { b \in DOMAIN tagBtns : tagBtns[b] = tag },
                 !.activeTag = tag,
                 !.err = "",
                 !.scrolled = IF filterSection THEN TRUE ELSE @ ]

\* click on the .pub-tag pill with index p
PubTagClick(s, p) ==
  LET tag == pills[p]
      u == updateDisplay(
             [ s EXCEPT !.tagActive = { b \in DOMAIN tagBtns : tagBtns[b] = tag },
                        !.activeTag = tag,
                        !.err = "" ])
  IN  [ u EXCEPT !.scrolled = IF filterSection THEN TRUE ELSE @ ]

\* the clear handler resetting only the type selection
ClearClick_TypeOnly(s) ==
  updateDisplay([ s EXCEPT !.activeType = "all",
                           !.typeActive = { b \in DOMAIN typeBtns : typeBtns[b] = "all" },
                           !.err = "" ])

\* click on #clear-filters
ClearClick(s) ==
  updateDisplay([ s EXCEPT !.activeType = "all",
                           !.activeTag = ALL,
                           !.typeActive = { b \in DOMAIN typeBtns : typeBtns[b] = "all" },
                           !.tagActive = { b \in DOMAIN tagBtns : tagBtns[b] = ALL },
                           !.err = "" ])

\* the toggle testing only display === "none"
toggleAbstract_EmptyIsShown(s) ==
  IF ~hasSibling
  THEN [ s EXCEPT !.err = "TypeError" ]
  ELSE IF s.abstractDisplay = "none"
       THEN [ s EXCEPT !.abstractDisplay = "block",
                       !.abstractLabel = "Abstract ▲",
                       !.err = "" ]
       ELSE [ s EXCEPT !.abstractDisplay = "none",
                       !.abstractLabel = "Abstract ▼",
                       !.err = "" ]

\* window.toggleAbstract(btn)
toggleAbstract(s) ==
  IF ~hasSibling
  THEN [ s EXCEPT !.err = "TypeError" ]
  ELSE IF s.abstractDisplay = "none" \/ s.abstractDisplay = ""
       THEN [ s EXCEPT !.abstractDisplay = "block",
                       !.abstractLabel = "Abstract ▲",
                       !.err = "" ]
       ELSE [ s EXCEPT !.abstractDisplay = "none",
                       !.abstractLabel = "Abstract ▼",
                       !.err = "" ]

\* ------------------------------------------------------------ state machine

\* The "all" controls carry class "active" in the markup.
MarkupTypeActive == { b \in DOMAIN typeBtns : typeBtns[b] = "all" }
MarkupTagActive(btns) == { b \in DOMAIN btns : btns[b] = ALL }

\* The page as the markup gives it, before the script has run.
Markup(a) ==
  [ activeType |-> "all", activeTag |-> ALL,
    display |-> [ i \in DOMAIN allPubs |-> "" ],
    countText |-> "", clearDisplay |-> "",
    typeActive |-> MarkupTypeActive, tagActive |-> MarkupTagActive(tagBtns),
    abstractDisplay |-> a.display, abstractLabel |-> a.label,
    scrolled |-> FALSE, err |-> "" ]

\* The script has run: the state after the initial updateDisplay().
Init ==
  /\ tagBtns \in TagBtnLayouts
  /\ countEl \in BOOLEAN
  /\ clearBtn \in BOOLEAN
  /\ \E a \in AbstractLayouts :
       /\ hasSibling = a.hasSibling
       /\ prev = Markup(a)
       /\ LET s == updateDisplay(Markup(a))
          IN  /\ activeType = s.activeType
              /\ activeTag = s.activeTag
              /\ display = s.display
              /\ countText = s.countText
              /\ clearDisplay = s.clearDisplay
              /\ typeActive = s.typeActive
              /\ tagActive = s.tagActive
              /\ abstractDisplay = s.abstractDisplay
              /\ abstractLabel = s.abstractLabel
              /\ scrolled = s.scrolled
              /\ err = s.err
  /\ lastOp = [kind |-> "load", arg |-> 0]

Handle(kind, arg, s) ==
  /\ SetSt(s)
  /\ prev' = St
  /\ lastOp' = [kind |-> kind, arg |-> arg]
  /\ UNCHANGED dom

ClickTypeBtn == \E b \in DOMAIN typeBtns : Handle("type", b, TypeBtnClick(St, b))

ClickTagBtn == \E b \in DOMAIN tagBtns : Handle("tag", b, TagBtnClick(St, b))

ClickPubTag == \E p \in DOMAIN pills : Handle("pill", p, PubTagClick(St, p))

\* The listener is registered only when the control exists.
ClickClear == clearBtn /\ Handle("clear", 0, ClearClick(St))

ClickAbstract == Handle("abstract", 0, toggleAbstract(St))

Next == ClickTypeBtn \/ ClickTagBtn \/ ClickPubTag \/ ClickClear \/ ClickAbstract

Spec == Init /\ [][Next]_vars

\* ------------------------------------------------------------------ claims

\* t is a substring of s.
IsSubstring(t, s) ==
  \E i \in 1..(Len(s) + 1) : \E j \in (i - 1)..Len(s) : SubSeq(s, i, j) = t

\* The data-tags string of entry i ("" when the attribute is missing).
TagsOf(i) == IF allPubs[i].hasTags THEN allPubs[i].tags ELSE <<>>

\* Entry i satisfies the selection (type, tag).
Selected(i, type, tag) ==
  /\ type = "all" \/ allPubs[i].type = type
  /\ tag = ALL \/ IsSubstring(tag, TagsOf(i))

Visible == { i \in DOMAIN allPubs : display[i] = "" }

ExpectedLabel(n) ==
  IF n = 1 THEN "1 publication" ELSE ToString(n) \o " publications"

TypeMatching == { b \in DOMAIN typeBtns : typeBtns[b] = activeType }
TagMatching == { b \in DOMAIN tagBtns : tagBtns[b] = activeTag }

\* C1: after load and after every click, an entry is visible iff its type
\* matches the active type (or that is "all") and the active tag is "all"
\* or a substring of its data-tags.
C1_VisibleIffSelected ==
  \A i \in DOMAIN allPubs :
    /\ display[i] \in {"", "none"}
    /\ display[i] = "" <=> Selected(i, activeType, activeTag)

\* A pill click with a type selected: the entry tagged "air" is shown for
\* the tag "ai", the article is hidden.
C1_Witness ==
  /\ lastOp.kind = "pill"
  /\ activeType = "paper"
  /\ activeTag = AI
  /\ display[1] = "" /\ display[3] = ""
  /\ display[2] = "none"

C3_CountLabel ==
  countEl => countText = ExpectedLabel(Cardinality(Visible))

\* Exactly one entry is visible and the label is singular.
C3_Witness ==
  /\ countEl
  /\ lastOp.kind \in {"type", "tag", "pill"}
  /\ Cardinality(Visible) = 1
  /\ countText = "1 publication"

\* C4: a clear click yields both selections "all", every entry visible and
\* the clear control hidden, and a second clear click changes nothing.
C4_ClearIdempotent ==
  /\ lastOp.kind = "clear" =>
       /\ activeType = "all" /\ activeTag = ALL
       /\ \A i \in DOMAIN allPubs : display[i] = ""
       /\ clearDisplay = "none"
       /\ countEl => countText = ExpectedLabel(Len(allPubs))
       /\ ClearClick(St) = St
  /\ clearBtn => ClearClick(ClearClick(St)) = ClearClick(St)

\* A clear click from a state with both selections set and entries hidden.
C4_Witness ==
  /\ lastOp.kind = "clear"
  /\ prev.activeType # "all" /\ prev.activeTag # ALL
  /\ \E i \in DOMAIN allPubs : prev.display[i] = "none"
  /\ prev.clearDisplay = "inline-block"
  /\ clearDisplay = "none"

\* C5: a pill click sets the active tag to the pill's tag, whatever the
\* selection was, and leaves the active type and the type marks alone.
C5_PillSetsTagOnly ==
  lastOp.kind = "pill" =>
    /\ activeTag = pills[lastOp.arg]
    /\ activeType = prev.activeType
    /\ typeActive = prev.typeActive

\* A pill click with a type and another tag selected.
C5_Witness ==
  /\ lastOp.kind = "pill"
  /\ prev.activeType = "article"
  /\ prev.activeTag \notin {ALL, activeTag}
  /\ activeType = "article"

\* C6: the clear control is shown iff one of the selections is not "all".
C6_ClearShownIffFiltered ==
  clearBtn =>
    /\ clearDisplay \in {"inline-block", "none"}
    /\ clearDisplay = "inline-block" <=> (activeType # "all" \/ activeTag # ALL)

\* Only the tag is selected and the control is shown.
C6_Witness ==
  /\ clearBtn
  /\ activeType = "all"
  /\ activeTag # ALL
  /\ clearDisplay = "inline-block"

\* C7 as stated: after toggleAbstract on a hidden block, a second call
\* restores the display value and the label the block and control had.
C7_RoundTripExact ==
  (lastOp.kind = "abstract" /\ hasSibling /\ prev.abstractDisplay \in {"", "none"}) =>
    /\ abstractDisplay = "block"
    /\ abstractLabel = "Abstract ▲"
    /\ toggleAbstract(St).abstractDisplay = prev.abstractDisplay
    /\ toggleAbstract(St).abstractLabel = prev.abstractLabel

\* C7 amended: toggleAbstract on a hidden block (display "none" or unset)
\* shows it with the label "Abstract ▲"; a second call hides it with display
\* "none" and the label "Abstract ▼", which is the prior display value
\* exactly when that was "none".
C7_RoundTripHides ==
  (lastOp.kind = "abstract" /\ hasSibling /\ prev.abstractDisplay \in {"", "none"}) =>
    /\ abstractDisplay = "block"
    /\ abstractLabel = "Abstract ▲"
    /\ abstractLabel # prev.abstractLabel
    /\ toggleAbstract(St).abstractDisplay = "none"
    /\ toggleAbstract(St).abstractLabel = "Abstract ▼"
    /\ toggleAbstract(St).abstractDisplay = prev.abstractDisplay
         <=> prev.abstractDisplay = "none"
    /\ toggleAbstract(toggleAbstract(St)) = St

\* The block had no display value and has been shown.
C7_Witness ==
  /\ lastOp.kind = "abstract"
  /\ hasSibling
  /\ prev.abstractDisplay = ""
  /\ abstractDisplay = "block"

\* C8: with the count node or the clear control missing, the load and every
\* type, tag and pill click throw nothing, set the selection and the
\* visibility, and skip only the update of the missing element.
C8_MissingOptionalTolerated ==
  (lastOp.kind \in {"load", "type", "tag", "pill"} /\ (~countEl \/ ~clearBtn)) =>
    /\ err = ""
    /\ lastOp.kind = "load" => activeType = "all" /\ activeTag = ALL
    /\ lastOp.kind = "type" =>
         activeType = typeBtns[lastOp.arg] /\ activeTag = prev.activeTag
    /\ lastOp.kind = "tag" =>
         activeTag = tagBtns[lastOp.arg] /\ activeType = prev.activeType
    /\ lastOp.kind = "pill" =>
         activeTag = pills[lastOp.arg] /\ activeType = prev.activeType
    /\ \A i \in DOMAIN allPubs :
         display[i] = (IF Selected(i, activeType, activeTag) THEN "" ELSE "none")
    /\ IF countEl
       THEN countText = ExpectedLabel(Cardinality(Visible))
       ELSE countText = prev.countText
    /\ IF clearBtn
       THEN clearDisplay =
              (IF activeType # "all" \/ activeTag # ALL THEN "inline-block" ELSE "none")
       ELSE clearDisplay = prev.clearDisplay

\* Both optional elements are missing and a pill click has filtered.
C8_Witness ==
  /\ ~countEl /\ ~clearBtn
  /\ lastOp.kind = "pill"
  /\ activeType = "paper"
  /\ \E i \in DOMAIN allPubs : display[i] = "none"
  /\ \E i \in DOMAIN allPubs : display[i] = ""
  /\ err = ""

C10_TypeTagCommute ==
  /\ lastOp.kind = "type" =>
       activeTag = prev.activeTag /\ tagActive = prev.tagActive
  /\ lastOp.kind = "tag" =>
       activeType = prev.activeType /\ typeActive = prev.typeActive
  /\ \A t \in DOMAIN typeBtns : \A g \in DOMAIN tagBtns :
       TagBtnClick(TypeBtnClick(St, t), g) = TypeBtnClick(TagBtnClick(St, g), t)

\* A tag click after a type click, both away from "all".
C10_Witness ==
  /\ lastOp.kind = "tag"
  /\ prev.activeType = "paper" /\ prev.activeTag = ALL
  /\ prev.typeActive = {2}
  /\ activeType = "paper" /\ activeTag = EU
  /\ typeActive = {2}

====
